---- MODULE Spec2Model ----
(***************************************************************************)
(* A model of plk.py, a pager with less-like key bindings: the content     *)
(* cursor and the screen cursor (class Index), the margin clamp            *)
(* (Pager._screen_csr_set_pos), the key handlers of Pager.__init__, the    *)
(* literal search (Pager.do_search_cmd / do_search_next_cmd) and the       *)
(* draw / getch loop of Pager.curses_main.                                 *)
(*                                                                         *)
(* Rows, columns and positions are 0-based as in the source; TLA+          *)
(* sequences are 1-based, so row r of the buffer is content[r + 1] and     *)
(* column c of a line is line[c + 1].                                      *)
(***************************************************************************)
EXTENDS Integers, Sequences, FiniteSets, TLC

VARIABLES
    content,        \* Pager.content: the list of lines read by main()
    cpos,           \* Pager.content_csr._pos
    height,         \* Pager.screen_size.y = Pager.screen_csr._size
    body_height,    \* Pager.body_height
    margin_height,  \* Pager.margin_height
    spos,           \* Pager.screen_csr._pos
    cury,           \* row of the curses cursor, what curses.getsyx()[0] reads
    message,        \* Pager.message ("" is None)
    search_state,   \* Pager.search_state: <<>> is None, else <<SearchState>>
    debug_log,      \* Pager.debug_log
    pc,             \* "draw", "key" (at getch), "exit", then main(): "except", "finally", "done"
    ch,             \* the key the last getch returned, "" once draw has
                    \* painted and getch waits for the next one
    fault,          \* an exception has left curses_main
    status_line,    \* what is on the footer row of the screen
    term,           \* the terminal modes: echo, cbreak, endwin called
    stderr,         \* what has been written to sys.stderr, in order
    nsteps          \* commands of the 100-line scenario applied so far

vars == <<content, cpos, height, body_height, margin_height, spos, cury,
          message, search_state, debug_log, pc, ch, fault, status_line,
          term, stderr, nsteps>>

----------------------------------------------------------------------------
(* Bounds of the inputs.                                                   *)

\* longest file text (in bytes) of the search specification
MaxText == 4
\* longest pattern typed at the search prompt
MaxPat == 2
\* largest number of lines of a file of the cursor specification
MaxSize == 12
\* largest terminal height (rows, footer included)
MaxHeight == 11
\* entries of debug_log that are kept apart
MaxLog == 1

\* Pager.footer_height
footer_height == 1

NL == "nl"
Letters == {"a", "b"}
Bytes == Letters \cup {NL}

Max(a, b) == IF a >= b THEN a ELSE b
Min(a, b) == IF a <= b THEN a ELSE b

SetMin(S) == CHOOSE x \in S : \A y \in S : x <= y
SetMax(S) == CHOOSE x \in S : \A y \in S : x >= y

----------------------------------------------------------------------------
(* File contents: inp.readlines() of main().                               *)

RECURSIVE ReadLinesFrom(_, _, _)
ReadLinesFrom(text, i, cur) ==
    IF i > Len(text)
    THEN IF cur = <<>> THEN <<>> ELSE <<cur>>
    ELSE IF text[i] = NL
         THEN <<Append(cur, NL)>> \o ReadLinesFrom(text, i + 1, <<>>)
         ELSE ReadLinesFrom(text, i + 1, Append(cur, text[i]))

\* bytes.readlines(): the text cut after each newline, newlines kept
ReadLines(text) == ReadLinesFrom(text, 1, <<>>)

Texts == UNION {[1..n -> Bytes] : n \in 0..MaxText}

\* a file of n two-byte lines, "a\n" and "b\n" in turn
LongContent(n) == [i \in 1..n |-> IF i % 2 = 1 THEN <<"a", NL>> ELSE <<"b", NL>>]

\* the file of the search scenario: "foo" only on line 5, at columns 10 and 20
Foo == <<"f", "o", "o">>
FooLine == [i \in 1..24 |->
              IF i \in {11, 21} THEN "f"
              ELSE IF i \in {12, 13, 22, 23} THEN "o"
              ELSE IF i = 24 THEN NL ELSE "x"]
FooBuffer == [i \in 1..7 |-> IF i = 6 THEN FooLine ELSE <<"x", NL>>]

\* what can be typed at the search prompt and submitted (not empty)
Patterns == UNION {[1..n -> Letters] : n \in 1..MaxPat} \cup {Foo}

\* the pattern typed in the cursor specification
CursorPatterns == {<<"a">>}

\* terminal heights of the cursor specification: body heights 0, 1, 2, 5 and
\* MaxHeight - 1, margins 0, 1 and 2
Heights == {1, 2, 3, 6, MaxHeight}

\* the terminal height of the search specification
SearchHeights == {3}

Size == Len(content)

----------------------------------------------------------------------------
(* class Index and the cursor operations of Pager.                         *)

\* mutant of IndexSetPos: the upper clamp only
IndexSetPosNoFloor(pos, size) == Min(pos, size - 1)

\* mutant of IndexSetPos: the upper clamp is size, not size - 1
IndexSetPosOffByOne(pos, size) == Max(0, Min(pos, size))

\* Index.set_pos: the position kept for a request pos in an Index of size
IndexSetPos(pos, size) == Max(0, Min(pos, size - 1))

\* mutant of ScreenCsrSetPos: no margin is kept
ScreenCsrSetPosNoMargin(y, h, bh, mh, cp, size) ==
    LET sp  == Max(0, Min(y, h - 1))
        pos == Max(0, Min(sp, size - 1))
    IN  Max(0, Min(Max(0, Min(pos, bh - 1)), h - 1))

\* mutant of ScreenCsrSetPos: the margin is kept at the top only
ScreenCsrSetPosTopOnly(y, h, bh, mh, cp, size) ==
    LET sp     == Max(0, Min(y, h - 1))
        pos    == Max(0, Min(sp, size - 1))
        margin == Max(0, Min(mh, Min(cp, size - 1 - cp)))
    IN  Max(0, Min(Max(margin, Min(pos, bh - 1)), h - 1))

\* mutant of ScreenCsrSetPos: the margin is not cut to the distance from the
\* content cursor to the ends of the buffer
ScreenCsrSetPosFixedMargin(y, h, bh, mh, cp, size) ==
    LET sp  == Max(0, Min(y, h - 1))
        pos == Max(0, Min(sp, size - 1))
    IN  Max(0, Min(Max(mh, Min(pos, bh - mh - 1)), h - 1))

\* Pager._screen_csr_set_pos(y) with screen_csr = Index(h), body height bh,
\* margin height mh, content cursor cp in a buffer of size lines
ScreenCsrSetPos(y, h, bh, mh, cp, size) ==
    LET sp     == IndexSetPos(y, h)
        pos    == Max(0, Min(sp, size - 1))
        margin == Max(0, Min(mh, Min(cp, size - 1 - cp)))
    IN  IndexSetPos(Max(margin, Min(pos, bh - margin - 1)), h)

\* mutant of MoveCsr: the screen row is re-clamped where it is
MoveCsrKeepRow(delta) ==
    /\ cpos' = Max(0, Min(cpos + delta, Size - 1))
    /\ spos' = ScreenCsrSetPos(spos, height, body_height, margin_height,
                               cpos', Size)

\* Pager.move_csr(delta)
MoveCsr(delta) ==
    /\ cpos' = IndexSetPos(cpos + delta, Size)
    /\ spos' = ScreenCsrSetPos(spos + delta, height, body_height, margin_height,
                               cpos', Size)

\* mutant of SetCsr: the screen row is re-clamped where it is
SetCsrKeepRow(pos) ==
    /\ cpos' = Max(0, Min(pos, Size - 1))
    /\ spos' = ScreenCsrSetPos(spos, height, body_height, margin_height,
                               cpos', Size)

\* Pager.set_csr(pos)
SetCsr(pos) ==
    /\ cpos' = IndexSetPos(pos, Size)
    /\ spos' = ScreenCsrSetPos(pos, height, body_height, margin_height,
                               cpos', Size)

\* body_height and margin_height of Pager.set_screen for a terminal of h rows
BodyHeightOf(h) == Max(0, h - footer_height)
MarginHeightOf(h) == BodyHeightOf(h) \div 5

\* mutant of SetScreen: the row is clamped before margin_height is recomputed
SetScreenStaleMargin(h) ==
    /\ height' = h
    /\ body_height' = BodyHeightOf(h)
    /\ margin_height' = MarginHeightOf(h)
    /\ spos' = ScreenCsrSetPos(cury, h, BodyHeightOf(h), margin_height,
                               cpos, Size)

\* Pager.set_screen(scr) when scr.getmaxyx() gives h rows
SetScreen(h) ==
    /\ height' = h
    /\ body_height' = BodyHeightOf(h)
    /\ margin_height' = MarginHeightOf(h)
    /\ spos' = ScreenCsrSetPos(cury, h, BodyHeightOf(h), MarginHeightOf(h),
                               cpos, Size)

----------------------------------------------------------------------------
(* bytes.find / bytes.rfind, and the scans of do_search_next_cmd.          *)

\* word occurs in line at (0-based) column c
MatchAt(line, word, c) ==
    /\ c >= 0
    /\ c + Len(word) <= Len(line)
    /\ \A k \in 1..Len(word) : line[c + k] = word[k]

\* mutant of Find: the column is counted from 1
FindOneBased(line, word, start) ==
    LET hits == {c \in start..(Len(line) - Len(word)) : MatchAt(line, word, c)}
    IN  IF hits = {} THEN -1 ELSE SetMin(hits) + 1

\* line.find(word, start), start >= 0
Find(line, word, start) ==
    LET hits == {c \in start..(Len(line) - Len(word)) : MatchAt(line, word, c)}
    IN  IF hits = {} THEN -1 ELSE SetMin(hits)

\* line.rfind(word, start, end), 0 <= start, 0 <= end
RFind(line, word, start, end) ==
    LET hits == {c \in start..(Min(end, Len(line)) - Len(word)) :
                    MatchAt(line, word, c)}
    IN  IF hits = {} THEN -1 ELSE SetMax(hits)

\* mutant of ForwardStart: the scan starts on the anchor column
ForwardStartSame(col) == Max(0, col)

\* the column the forward loop searches row from, given ss.col
ForwardStart(col) == col + 1

\* mutant of BackwardStartPos: occurrences that overlap the anchor are cut off
BackwardStartPosNoOverlap(line, col, word) ==
    IF col = -1 THEN Len(line) ELSE col

\* the end the backward loop gives rfind, given the line, ss.col and the word
BackwardStartPos(line, col, word) ==
    IF col = -1 THEN Len(line) ELSE col + Len(word) - 1

\* mutant of ForwardScan: the scan wraps around to the top of the buffer
RECURSIVE ForwardScanFrom(_, _, _, _)
ForwardScanFrom(row, col, word, left) ==
    IF left = 0 \/ Size = 0 THEN [row |-> Size, col |-> -1]
    ELSE LET c == Find(content[(row % Size) + 1], word, col + 1)
         IN  IF c >= 0 THEN [row |-> row % Size, col |-> c]
             ELSE ForwardScanFrom((row % Size) + 1, c, word, left - 1)
ForwardScanWrap(row, col, word) == ForwardScanFrom(row, col, word, Size + 1)

\* the while loop of the forward branch: ss.row and ss.col when it ends
RECURSIVE ForwardScan(_, _, _)
ForwardScan(row, col, word) ==
    IF row < Size
    THEN LET c == Find(content[row + 1], word, ForwardStart(col))
         IN  IF c >= 0 THEN [row |-> row, col |-> c]
             ELSE ForwardScan(row + 1, c, word)
    ELSE [row |-> row, col |-> col]

\* the while loop of the backward branch: ss.row and ss.col when it ends
RECURSIVE BackwardScan(_, _, _)
BackwardScan(row, col, word) ==
    IF row >= 0
    THEN LET line == content[row + 1]
             c    == RFind(line, word, 0, BackwardStartPos(line, col, word))
         IN  IF c >= 0 THEN [row |-> row, col |-> c]
             ELSE BackwardScan(row - 1, c, word)
    ELSE [row |-> row, col |-> col]

\* mutant of EffectiveDir: N scans the same way as n
EffectiveDirIgnoreKey(ss, key) == ss.dir

\* the scan direction for the key ("n" or "N") under search state ss
EffectiveDir(ss, key) == ss.dir * (IF key = "n" THEN 1 ELSE -1)

\* mutant of ScanResult: the scan resumes from the row of the content cursor
ScanResultFromCursor(ss, key) ==
    IF EffectiveDir(ss, key) < 0
    THEN BackwardScan(Min(cpos, Size - 1), ss.col, ss.word)
    ELSE ForwardScan(Max(0, cpos), ss.col, ss.word)

\* ss.row and ss.col after the scan of do_search_next_cmd(key)
ScanResult(ss, key) ==
    IF EffectiveDir(ss, key) < 0
    THEN BackwardScan(Min(ss.row, Size - 1), ss.col, ss.word)
    ELSE ForwardScan(Max(0, ss.row), ss.col, ss.word)

\* the body of do_search_next_cmd(key) for a search state ss that is not None
SearchNext(ss, key) ==
    LET r == ScanResult(ss, key)
    IN  /\ search_state' = <<[ss EXCEPT !.row = r.row, !.col = r.col]>>
        /\ IF r.col >= 0
           THEN SetCsr(r.row) /\ UNCHANGED message
           ELSE message' = "not found" /\ UNCHANGED <<cpos, spos>>

\* mutant of NewSearchState: the anchor column starts at 0
NewSearchStateCol0(key, w) ==
    [dir |-> IF key = "/" THEN 1 ELSE -1, row |-> cpos, col |-> 0, word |-> w]

\* SearchState(1 if chr_ch == b'/' else -1, self.content_csr.pos, -1, w)
NewSearchState(key, w) ==
    [dir |-> IF key = "/" THEN 1 ELSE -1, row |-> cpos, col |-> -1, word |-> w]

----------------------------------------------------------------------------
(* The loop of curses_main: draw, getch, key handler.                      *)

\* draw_text_area: the content index drawn on screen row y
ContentIndexAt(y) == cpos + (y - spos)

\* draw_text_area: the body rows that show the filler '~'
FillerRows ==
    {y \in 0..(body_height - 1) :
        ~(0 <= ContentIndexAt(y) /\ ContentIndexAt(y) < Size)}

\* draw_scroll_bar: y_begin and y_end (size > 0)
ScrollBegin == ((cpos - spos) * body_height) \div Size
ScrollEnd == ((cpos + body_height - spos) * body_height) \div Size

\* draw_scroll_bar: the body rows painted as the thumb
ThumbRows ==
    {y \in 0..(body_height - 1) :
        y = ScrollBegin \/ (ScrollBegin <= y /\ y < ScrollEnd)}

\* the slice text[a:b] for 0 <= a <= b
Slice(text, a, b) ==
    IF a >= Len(text) THEN <<>> ELSE SubSeq(text, a + 1, Min(b, Len(text)))

\* render_line_w_search_state(ci) draws the line (returns True)
Highlighted(ci) ==
    /\ search_state # <<>>
    /\ ~(search_state[1].col < 0 \/ ci # search_state[1].row)

\* render_line_w_search_state(ci): the bytes drawn in reverse video
HighlightSpan(ci) ==
    LET ss == search_state[1]
    IN  Slice(content[ci + 1], ss.col, ss.col + Len(ss.word))

\* the footer row draw_text_area paints: the pending message, else the
\* counter [pos + 1 / size]
StatusLine ==
    IF message # ""
    THEN [kind |-> "message", text |-> message, pos |-> 0, total |-> 0]
    ELSE [kind |-> "counter", text |-> "", pos |-> cpos + 1, total |-> Size]

\* the footer row while input_param reads the pattern after the prompt key
PromptLine(key) == [kind |-> "prompt", text |-> key, pos |-> 0, total |-> 0]

\* Pager.draw: draw_text_area, draw_scroll_bar (which divides by cc.size),
\* scr.move(screen_csr.pos, 0); the getch that follows refreshes the screen,
\* so what draw_text_area painted is shown only if draw_scroll_bar returns
Draw ==
    /\ pc = "draw"
    /\ message' = ""
    /\ IF Size = 0
       THEN /\ fault' = TRUE
            /\ pc' = "exit"
            /\ UNCHANGED <<cury, ch, status_line>>
       ELSE /\ status_line' = StatusLine
            /\ cury' = spos
            /\ pc' = "key"
            /\ ch' = ""
            /\ UNCHANGED fault
    /\ UNCHANGED <<content, cpos, height, body_height, margin_height, spos,
                   search_state, debug_log, term, stderr, nsteps>>

\* the key k, whose handler is move_csr(delta)
MoveKey(k, delta) ==
    /\ pc = "key"
    /\ ch' = k
    /\ MoveCsr(delta)
    /\ pc' = "draw"
    /\ UNCHANGED <<content, height, body_height, margin_height, cury, message,
                   search_state, debug_log, fault>>
    /\ UNCHANGED <<status_line, term, stderr>>

\* e, j, KEY_DOWN
KeyDown == MoveKey("j", 1) /\ UNCHANGED nsteps
\* y, k, KEY_UP
KeyUp == MoveKey("k", -1) /\ UNCHANGED nsteps
\* d
KeyHalfDown == MoveKey("d", body_height \div 2) /\ UNCHANGED nsteps
\* u
KeyHalfUp == MoveKey("u", -(body_height \div 2)) /\ UNCHANGED nsteps
\* f
KeyPageDown == MoveKey("f", body_height) /\ UNCHANGED nsteps
\* b
KeyPageUp == MoveKey("b", -body_height) /\ UNCHANGED nsteps

\* the key k, whose handler is set_csr(pos)
SeekKey(k, pos) ==
    /\ pc = "key"
    /\ ch' = k
    /\ SetCsr(pos)
    /\ pc' = "draw"
    /\ UNCHANGED <<content, height, body_height, margin_height, cury, message,
                   search_state, debug_log, fault>>
    /\ UNCHANGED <<status_line, term, stderr>>

\* G
KeyBottom == SeekKey("G", Size) /\ UNCHANGED nsteps
\* g
KeyTop == SeekKey("g", 0) /\ UNCHANGED nsteps

\* r, KEY_REFRESH, KEY_RESIZE: set_screen on a terminal of h rows
KeyResize ==
    /\ pc = "key"
    /\ ch' = "r"
    /\ \E h \in Heights : SetScreen(h)
    /\ pc' = "draw"
    /\ UNCHANGED <<content, cpos, cury, message, search_state, debug_log,
                   fault, nsteps>>
    /\ UNCHANGED <<status_line, term, stderr>>

\* q
KeyQuit ==
    /\ pc = "key"
    /\ ch' = "q"
    /\ pc' = "exit"
    /\ UNCHANGED <<content, cpos, height, body_height, margin_height, spos,
                   cury, message, search_state, debug_log, fault, nsteps>>
    /\ UNCHANGED <<status_line, term, stderr>>

\* the interrupt key while getch waits: KeyboardInterrupt leaves curses_main
KeyInterrupt ==
    /\ pc = "key"
    /\ ch' = "^C"
    /\ fault' = TRUE
    /\ pc' = "exit"
    /\ UNCHANGED <<content, cpos, height, body_height, margin_height, spos,
                   cury, message, search_state, debug_log, nsteps>>
    /\ UNCHANGED <<status_line, term, stderr>>

\* a key that is not in key_handler: unknown_key_func
KeyUnknown ==
    /\ pc = "key"
    /\ Len(debug_log) < MaxLog
    /\ ch' = "x"
    /\ debug_log' = Append(debug_log, "ch=x")
    /\ pc' = "draw"
    /\ UNCHANGED <<content, cpos, height, body_height, margin_height, spos,
                   cury, message, search_state, fault, nsteps>>
    /\ UNCHANGED <<status_line, term, stderr>>

\* / or ? with a pattern of P submitted at the prompt: do_search_cmd
SearchKey(P) ==
    /\ pc = "key"
    /\ \E k \in {"/", "?"}, w \in P :
          /\ ch' = k
          /\ status_line' = PromptLine(k)
          /\ SearchNext(NewSearchState(k, w), "n")
    /\ cury' = body_height
    /\ pc' = "draw"
    /\ UNCHANGED <<content, height, body_height, margin_height, debug_log,
                   fault, nsteps>>
    /\ UNCHANGED <<term, stderr>>

\* / or ? in the cursor specification
KeySearch == SearchKey(CursorPatterns)
\* / or ? in the search specification
KeySearchAny == SearchKey(Patterns)

\* / or ? with the prompt left empty: input_param gives None
KeySearchCancel ==
    /\ pc = "key"
    /\ \E k \in {"/", "?"} : ch' = k /\ status_line' = PromptLine(k)
    /\ search_state' = <<>>
    /\ cury' = body_height
    /\ pc' = "draw"
    /\ UNCHANGED <<content, cpos, height, body_height, margin_height, spos,
                   message, debug_log, fault, nsteps>>
    /\ UNCHANGED <<term, stderr>>

\* mutant of SearchNextKey: no early return, no SearchState reads as a
\* failed search
SearchNextKeyNoReturn(k) ==
    /\ pc = "key"
    /\ ch' = k
    /\ IF search_state = <<>>
       THEN message' = "not found" /\ UNCHANGED <<cpos, spos, search_state>>
       ELSE SearchNext(search_state[1], k)
    /\ pc' = "draw"
    /\ UNCHANGED <<content, height, body_height, margin_height, cury,
                   debug_log, fault, nsteps>>
    /\ UNCHANGED <<status_line, term, stderr>>

\* do_search_next_cmd(k) as dispatched for the key k
SearchNextKey(k) ==
    /\ pc = "key"
    /\ ch' = k
    /\ IF search_state = <<>>
       THEN UNCHANGED <<cpos, spos, message, search_state>>
       ELSE SearchNext(search_state[1], k)
    /\ pc' = "draw"
    /\ UNCHANGED <<content, height, body_height, margin_height, cury,
                   debug_log, fault, nsteps>>
    /\ UNCHANGED <<status_line, term, stderr>>

\* n
KeyNext == SearchNextKey("n")
\* N
KeyPrev == SearchNextKey("N")

(***************************************************************************)
(* Leaving the loop: the finally block of wrapper(), then the except and   *)
(* finally blocks of main().                                               *)
(***************************************************************************)
\* scr.keypad(0); curses.echo(); curses.nocbreak(); curses.endwin()
Restored == [echo |-> TRUE, cbreak |-> FALSE, endwin |-> TRUE]

\* mutant of WrapperFinally: the cleanup follows the call, outside a finally
WrapperNoFinally ==
    /\ pc = "exit"
    /\ term' = IF fault THEN term ELSE Restored
    /\ pc' = "except"
    /\ UNCHANGED <<content, cpos, height, body_height, margin_height, spos,
                   cury, message, search_state, debug_log, ch, fault,
                   status_line, stderr, nsteps>>

\* wrapper(): the finally block runs on return and on an exception alike
WrapperFinally ==
    /\ pc = "exit"
    /\ term' = Restored
    /\ pc' = "except"
    /\ UNCHANGED <<content, cpos, height, body_height, margin_height, spos,
                   cury, message, search_state, debug_log, ch, fault,
                   status_line, stderr, nsteps>>

\* main(): except: sys.stderr.write(traceback.format_exc())
MainExcept ==
    /\ pc = "except"
    /\ stderr' = IF fault THEN Append(stderr, "traceback") ELSE stderr
    /\ pc' = "finally"
    /\ UNCHANGED <<content, cpos, height, body_height, margin_height, spos,
                   cury, message, search_state, debug_log, ch, fault,
                   status_line, term, nsteps>>

\* main(): finally: if pgr.debug_log: sys.stderr.write('debug log: ...')
MainFinally ==
    /\ pc = "finally"
    /\ stderr' = IF debug_log # <<>> THEN Append(stderr, "debug log")
                                     ELSE stderr
    /\ pc' = "done"
    /\ UNCHANGED <<content, cpos, height, body_height, margin_height, spos,
                   cury, message, search_state, debug_log, ch, fault,
                   status_line, term, nsteps>>

----------------------------------------------------------------------------
(* Startup: main() loads the file and sets the banner, wrapper() calls     *)
(* initscr, noecho and cbreak, and curses_main calls set_screen with the   *)
(* curses cursor on row 0.                                                 *)

Startup(lines, h) ==
    /\ content = lines
    /\ cpos = 0
    /\ height = h
    /\ body_height = BodyHeightOf(h)
    /\ margin_height = MarginHeightOf(h)
    /\ spos = ScreenCsrSetPos(0, h, BodyHeightOf(h), MarginHeightOf(h), 0,
                              Len(lines))
    /\ cury = 0
    /\ message = "banner"
    /\ search_state = <<>>
    /\ debug_log = <<>>
    /\ pc = "draw"
    /\ ch = ""
    /\ fault = FALSE
    /\ status_line = [kind |-> "blank", text |-> "", pos |-> 0, total |-> 0]
    /\ term = [echo |-> FALSE, cbreak |-> TRUE, endwin |-> FALSE]
    /\ stderr = <<>>
    /\ nsteps = 0

\* The cursor specification: files of 0..MaxSize lines, every key.
Init == \E n \in 0..MaxSize, h \in Heights : Startup(LongContent(n), h)

Next ==
    \/ Draw
    \/ KeyDown
    \/ KeyUp
    \/ KeyHalfDown
    \/ KeyHalfUp
    \/ KeyPageDown
    \/ KeyPageUp
    \/ KeyBottom
    \/ KeyTop
    \/ KeyResize
    \/ KeyQuit
    \/ KeyInterrupt
    \/ KeyUnknown
    \/ KeySearch
    \/ KeySearchCancel
    \/ KeyNext
    \/ KeyPrev
    \/ WrapperFinally
    \/ MainExcept
    \/ MainFinally

Spec == Init /\ [][Next]_vars

\* The fixed-geometry specification: as Spec, but the terminal is never
\* resized after startup.
NextFixed ==
    \/ Draw
    \/ KeyDown
    \/ KeyUp
    \/ KeyHalfDown
    \/ KeyHalfUp
    \/ KeyPageDown
    \/ KeyPageUp
    \/ KeyBottom
    \/ KeyTop
    \/ KeyQuit
    \/ KeyInterrupt
    \/ KeyUnknown
    \/ KeySearch
    \/ KeySearchCancel
    \/ KeyNext
    \/ KeyPrev
    \/ WrapperFinally
    \/ MainExcept
    \/ MainFinally

SpecFixed == Init /\ [][NextFixed]_vars

\* The search specification: every short file, every short pattern; j moves
\* the content cursor to the row a search starts from.
InitSearch ==
    \E lines \in {ReadLines(t) : t \in Texts} \cup {FooBuffer},
       h \in SearchHeights : Startup(lines, h)

NextSearch ==
    \/ Draw
    \/ KeyDown
    \/ KeySearchAny
    \/ KeySearchCancel
    \/ KeyNext
    \/ KeyPrev

SpecSearch == InitSearch /\ [][NextSearch]_vars

\* The scenario of 100 lines on a body of 20 rows: j pressed 50 times from
\* the top, then a seek to the last line.
ScenarioDown ==
    /\ nsteps < 50
    /\ MoveKey("j", 1)
    /\ nsteps' = nsteps + 1

ScenarioSeek ==
    /\ nsteps = 50
    /\ \E target \in {Size - 1, Size} : SeekKey("G", target)
    /\ nsteps' = nsteps + 1

InitScenario == Startup(LongContent(100), 21)

NextScenario ==
    \/ Draw
    \/ ScenarioDown
    \/ ScenarioSeek

SpecScenario == InitScenario /\ [][NextScenario]_vars

----------------------------------------------------------------------------
(* Properties.                                                             *)

\* clamp(x, lo, hi)
Clamp(x, lo, hi) == IF x < lo THEN lo ELSE IF x > hi THEN hi ELSE x

\* the (row, column) pairs at which word occurs in the buffer
Occurrences(word) ==
    UNION {{<<r, c>> : c \in {x \in 0..(Len(content[r + 1]) - 1) :
                                 MatchAt(content[r + 1], word, x)}} :
           r \in 0..(Size - 1)}

\* the occurrences after the anchor (r, c), in (row, column) order
OccAfter(r, c, word) ==
    {o \in Occurrences(word) : o[1] > r \/ (o[1] = r /\ o[2] > c)}

\* the occurrences before the anchor (r, c); c = -1 stands for the whole row
OccBefore(r, c, word) ==
    {o \in Occurrences(word) : o[1] < r \/ (o[1] = r /\ (c = -1 \/ o[2] < c))}

\* the first and the last of a set of occurrences, in (row, column) order
FirstOcc(S) ==
    CHOOSE o \in S : \A q \in S : o[1] < q[1] \/ (o[1] = q[1] /\ o[2] <= q[2])
LastOcc(S) ==
    CHOOSE o \in S : \A q \in S : o[1] > q[1] \/ (o[1] = q[1] /\ o[2] >= q[2])

\* C1: in every reachable state margin_height is body_height / 5 and the
\* screen row lies in [m, body_height - 1 - m], m the margin cut down to the
\* distance of the content cursor from either end of the buffer; when that
\* interval is empty the screen row is m.
MarginInvariant ==
    LET margin == body_height \div 5
        m      == Max(0, Min(margin, Min(cpos, Size - 1 - cpos)))
    IN  /\ margin_height = margin
        /\ IF m <= body_height - 1 - m
           THEN m <= spos /\ spos <= body_height - 1 - m
           ELSE spos = m

\* C1 witness: a move has pushed the screen row onto the lower margin of a
\* body with margin 2, away from both ends of the buffer.
MarginWitness ==
    /\ pc = "draw" /\ ch = "j"
    /\ margin_height = 2
    /\ cpos >= 2 /\ Size - 1 - cpos >= 2
    /\ spos = body_height - 3

\* C2: a move key with delta d on a buffer that is not empty leaves the
\* content cursor on clamp(old + d, 0, size - 1), inside the buffer, and the
\* loop goes on to draw without a fault.
SaturatingMove ==
    [][\A k \in {"j", "k", "d", "u", "f", "b"} :
         \A d \in {1, -1, body_height \div 2, -(body_height \div 2),
                   body_height, -body_height} :
            (MoveKey(k, d) /\ Size > 0) =>
               /\ cpos' = Clamp(cpos + d, 0, Size - 1)
               /\ 0 <= cpos' /\ cpos' <= Size - 1
               /\ pc' = "draw" /\ fault' = FALSE]_vars

\* C2 witness: a page down on a body taller than the buffer has stopped on
\* the last line.
SaturatingMoveWitness ==
    /\ pc = "draw" /\ ch = "f"
    /\ Size >= 2 /\ body_height > Size
    /\ cpos = Size - 1

\* C3 (as claimed): an empty entry at the search prompt leaves a search
\* state that exists as it was.
CancelKeepsSearchState ==
    [][(KeySearchCancel /\ search_state # <<>>) =>
          search_state' = search_state]_vars

\* C4 (as claimed): with an empty buffer no render and no key ends in a fault.
EmptyBufferNoFault == Size = 0 => ~fault

\* C5: a repeat in the same direction of a forward search lands on the first
\* occurrence after the anchor in (row, column) order and puts the content
\* cursor on its row; when there is none it reports not found, leaves both
\* cursors where they were and the anchor column at -1.
NoWrapRepeat ==
    [][(ch' = "n" /\ search_state # <<>> /\ search_state[1].dir = 1
          /\ KeyNext) =>
          LET ss   == search_state[1]
              rest == OccAfter(ss.row, ss.col, ss.word)
          IN  /\ search_state' # <<>>
              /\ IF rest # {}
                 THEN /\ search_state'[1].row = FirstOcc(rest)[1]
                      /\ search_state'[1].col = FirstOcc(rest)[2]
                      /\ cpos' = FirstOcc(rest)[1]
                      /\ message' = message
                 ELSE /\ search_state'[1].col = -1
                      /\ cpos' = cpos /\ spos' = spos
                      /\ message' = "not found"]_vars

\* C5 witness: in the file with "foo" at (5, 10) and (5, 20) only, the repeat
\* after the second occurrence has failed with the cursor still on row 5.
NoWrapRepeatWitness ==
    /\ content = FooBuffer
    /\ pc = "draw" /\ ch = "n"
    /\ search_state = <<[dir |-> 1, row |-> Size, col |-> -1, word |-> Foo]>>
    /\ cpos = 5
    /\ message = "not found"

\* C6: a forward search from the content cursor for a pattern with no
\* occurrence in the rows from there to the end leaves both cursors where
\* they were and sets the message "not found".
ForwardNotFound ==
    [][(ch' = "/" /\ search_state' # <<>>
          /\ SearchKey({search_state'[1].word})
          /\ OccAfter(cpos, -1, search_state'[1].word) = {}) =>
          /\ cpos' = cpos /\ spos' = spos
          /\ message' = "not found"]_vars

\* C6 witness: a forward search has failed below a row that holds the pattern.
ForwardNotFoundWitness ==
    /\ pc = "draw" /\ ch = "/"
    /\ message = "not found"
    /\ search_state # <<>>
    /\ \E o \in Occurrences(search_state[1].word) : o[1] < cpos

\* C7: a forward search from the content cursor for a pattern whose first
\* occurrence at or after the start of that row is at (r, c) ends with the
\* content cursor and the anchor row on r and the anchor column on c.
SearchCursorCoupling ==
    [][(ch' = "/" /\ search_state' # <<>>
          /\ SearchKey({search_state'[1].word})
          /\ OccAfter(cpos, -1, search_state'[1].word) # {}) =>
          LET first == FirstOcc(OccAfter(cpos, -1, search_state'[1].word))
          IN  /\ cpos' = first[1]
              /\ search_state'[1].row = first[1]
              /\ search_state'[1].col = first[2]]_vars

\* C7 witness: a forward search has landed on column 0 of a row below the
\* first, which holds a second occurrence further right.
SearchCursorCouplingWitness ==
    /\ pc = "draw" /\ ch = "/"
    /\ search_state # <<>>
    /\ search_state[1].col = 0
    /\ search_state[1].row = cpos
    /\ cpos >= 1
    /\ \E o \in Occurrences(search_state[1].word) : o[1] = cpos /\ o[2] > 0

\* the outcome of a backward scan from the anchor (r, c) for word
BackwardOutcome(r, c, word) ==
    LET before == OccBefore(r, c, word)
    IN  /\ search_state' # <<>>
        /\ IF before # {}
           THEN /\ search_state'[1].row = LastOcc(before)[1]
                /\ search_state'[1].col = LastOcc(before)[2]
                /\ cpos' = LastOcc(before)[1]
                /\ message' = message
           ELSE /\ search_state'[1].row = -1
                /\ search_state'[1].col = -1
                /\ cpos' = cpos /\ spos' = spos
                /\ message' = "not found"

\* C8: a backward search (? from the content cursor, n of a backward search,
\* N of a forward search) lands on the last occurrence before the anchor
\* column in the anchor row (anywhere in the row when the anchor column is
\* -1), else on the last occurrence of the nearest earlier row that holds
\* the pattern; when there is none the anchor row ends at -1, not found is
\* reported and neither cursor moves.
BackwardMirror ==
    [][/\ (ch' = "?" /\ search_state' # <<>>
             /\ SearchKey({search_state'[1].word})) =>
             BackwardOutcome(cpos, -1, search_state'[1].word)
       /\ (ch' = "n" /\ search_state # <<>> /\ search_state[1].dir = -1
             /\ KeyNext) =>
             BackwardOutcome(search_state[1].row, search_state[1].col,
                             search_state[1].word)
       /\ (ch' = "N" /\ search_state # <<>> /\ search_state[1].dir = 1
             /\ KeyPrev) =>
             BackwardOutcome(search_state[1].row, search_state[1].col,
                             search_state[1].word)]_vars

\* C8 witness: N of a forward search has landed on an occurrence that
\* overlaps the next one in the same row.
BackwardMirrorWitness ==
    /\ pc = "draw" /\ ch = "N"
    /\ search_state # <<>>
    /\ search_state[1].dir = 1
    /\ search_state[1].col >= 0
    /\ Len(search_state[1].word) >= 2
    /\ MatchAt(content[search_state[1].row + 1], search_state[1].word,
               search_state[1].col + 1)

\* C9 (as claimed): in the scenario the screen row is within [4, 15] after
\* every one of the 50 moves, and the content cursor is on 50 after the last.
ScenarioRowAlwaysInside ==
    /\ nsteps \in 1..50 => (4 <= spos /\ spos <= 15)
    /\ nsteps = 50 => cpos = 50

\* C9 (amended): the screen row is 1, 2, 3 after the first three moves and
\* within [4, 15] after each of the moves 4 to 50; the content cursor is on
\* 50 after the last.
ScenarioRowInsideFromFourth ==
    /\ nsteps \in 1..3 => spos = nsteps
    /\ nsteps \in 4..50 => (4 <= spos /\ spos <= 15)
    /\ nsteps = 50 => cpos = 50

\* C9 witness: the fiftieth move has been made.
ScenarioWitness ==
    /\ pc = "draw" /\ ch = "j"
    /\ nsteps = 50
    /\ cpos = 50 /\ spos = 15

\* C10: on a buffer of at least body_height >= 1 lines, G ends on the last
\* line with the screen row on the last body row, as a seek to size - 1
\* would, and g ends on line 0 with the screen row 0.
GoToEnds ==
    [][(Size >= body_height /\ body_height >= 1) =>
          /\ KeyBottom =>
                /\ cpos' = Size - 1 /\ spos' = body_height - 1
                /\ cpos' = IndexSetPos(Size - 1, Size)
                /\ spos' = ScreenCsrSetPos(Size - 1, height, body_height,
                                           margin_height, Size - 1, Size)
          /\ KeyTop => (cpos' = 0 /\ spos' = 0)]_vars

\* C10 witness: G has been pressed on a buffer longer than a body with a
\* margin.
GoToEndsWitness ==
    /\ pc = "draw" /\ ch = "G"
    /\ body_height >= 5 /\ Size > body_height
    /\ cpos = Size - 1 /\ spos = body_height - 1


\* C11: a second resize to the same height h, re-clamping from the screen row
\* the first one left (the draw in between puts the terminal cursor there),
\* gives the same body_height, margin_height, content position and screen
\* row as the first; margin_height is body_height \div 5 when the row is
\* clamped.
ResizeIdempotent ==
    [][KeyResize =>
         LET h == height'
             again == ScreenCsrSetPos(spos', h, BodyHeightOf(h),
                                      MarginHeightOf(h), cpos', Size)
         IN /\ margin_height' = body_height' \div 5
            /\ BodyHeightOf(h) = body_height'
            /\ MarginHeightOf(h) = margin_height'
            /\ again = spos'
            /\ cpos' = cpos]_vars

\* a resize has just moved the screen row off the row the terminal cursor
\* was on, into the band the new margin allows
ResizeIdempotentWitness ==
    /\ pc = "draw"
    /\ ch = "r"
    /\ margin_height >= 1
    /\ spos # cury
    /\ cpos >= margin_height


\* C12 (as claimed): a render with a message pending shows that message on
\* the footer row and clears it; a render with no message pending shows the
\* counter [content position + 1 / size].
OneShotMessage ==
    [][Draw =>
         /\ message' = ""
         /\ IF message # ""
            THEN status_line'.kind = "message" /\ status_line'.text = message
            ELSE /\ status_line'.kind = "counter"
                 /\ status_line'.pos = cpos + 1
                 /\ status_line'.total = Size]_vars

\* C12 restricted to the renders that return (size > 0)
OneShotMessageNonEmpty ==
    [][(Draw /\ Size > 0) =>
         /\ message' = ""
         /\ IF message # ""
            THEN status_line'.kind = "message" /\ status_line'.text = message
            ELSE /\ status_line'.kind = "counter"
                 /\ status_line'.pos = cpos + 1
                 /\ status_line'.total = Size]_vars


\* C13: a key that is not in key_handler changes none of the content
\* position, the screen row, body_height, margin_height and the SearchState,
\* leaves the loop running, and appends exactly one entry to debug_log; n or
\* N with no SearchState changes nothing at all.
UnknownKeyIgnored ==
    [][/\ (ch' = "x" /\ KeyUnknown) =>
            /\ UNCHANGED <<cpos, spos, body_height, margin_height,
                           search_state, height, content, message>>
            /\ debug_log' = Append(debug_log, "ch=x")
            /\ Len(debug_log') = Len(debug_log) + 1
            /\ pc' = "draw"
            /\ fault' = FALSE
       /\ (ch' \in {"n", "N"} /\ search_state = <<>> /\ (KeyNext \/ KeyPrev)) =>
            /\ UNCHANGED <<cpos, spos, body_height, margin_height,
                           search_state, height, content, message,
                           debug_log>>
            /\ pc' = "draw"
            /\ fault' = FALSE]_vars

\* an unknown key has just been logged, away from the top of the file and
\* with a SearchState in place
UnknownKeyIgnoredWitness ==
    /\ pc = "draw"
    /\ ch = "x"
    /\ debug_log = <<"ch=x">>
    /\ cpos >= 1
    /\ search_state # <<>>
    /\ ~fault


\* C14: whether the loop ends by q or by an exception, the terminal is
\* restored (echo on, cbreak off, endwin called) before anything is written
\* to stderr: nothing is written while the loop runs, the terminal is
\* restored once main() has the control back, and at the end stderr holds
\* the traceback (after an exception) and then the debug log (if any).
RestoredBeforeReport ==
    /\ stderr # <<>> => term = Restored
    /\ pc \in {"except", "finally", "done"} => term = Restored
    /\ pc \in {"draw", "key", "exit"} =>
          /\ stderr = <<>>
          /\ term = [echo |-> FALSE, cbreak |-> TRUE, endwin |-> FALSE]
    /\ pc = "done" =>
          stderr = (IF fault THEN <<"traceback">> ELSE <<>>) \o
                   (IF debug_log # <<>> THEN <<"debug log">> ELSE <<>>)

\* the loop was left by an exception with an entry in the debug log, and
\* both reports are on stderr
RestoredBeforeReportWitness ==
    /\ pc = "done"
    /\ fault
    /\ debug_log # <<>>
    /\ stderr = <<"traceback", "debug log">>
    /\ term = Restored


\* where a repeat lands as a function of the SearchState ss, the key and the
\* buffer alone: <<found, row, col>>
AnchorOutcome(ss, key) ==
    LET fwd == ss.dir * (IF key = "n" THEN 1 ELSE -1) > 0
        cand == IF fwd THEN OccAfter(ss.row, ss.col, ss.word)
                       ELSE OccBefore(ss.row, ss.col, ss.word)
    IN  IF cand = {} THEN <<FALSE, IF fwd THEN Size ELSE -1, -1>>
        ELSE LET o == IF fwd THEN FirstOcc(cand) ELSE LastOcc(cand)
             IN  <<TRUE, o[1], o[2]>>

\* C15: whatever moves, seeks and resizes came between a search and its
\* repeat, n or N lands where the SearchState and the buffer alone say: found
\* or not, row and column are AnchorOutcome of the anchor, which reads
\* neither cursor nor the screen geometry; a hit puts the content cursor on
\* that row and a miss leaves both cursors.
RepeatFromAnchor ==
    [][(ch' \in {"n", "N"} /\ search_state # <<>> /\ (KeyNext \/ KeyPrev)) =>
         LET out == AnchorOutcome(search_state[1], ch')
         IN /\ search_state' # <<>>
            /\ search_state'[1].row = out[2]
            /\ search_state'[1].col = out[3]
            /\ search_state'[1].word = search_state[1].word
            /\ search_state'[1].dir = search_state[1].dir
            /\ IF out[1]
               THEN cpos' = out[2] /\ message' = message
               ELSE /\ cpos' = cpos /\ spos' = spos
                    /\ message' = "not found"]_vars

\* n of a forward search has just failed although the pattern occurs below
\* the content cursor: the cursor was moved up after the search, and the
\* repeat resumed from the anchor all the same
RepeatFromAnchorWitness ==
    /\ pc = "draw"
    /\ ch = "n"
    /\ message = "not found"
    /\ search_state # <<>>
    /\ search_state[1].dir = 1
    /\ search_state[1].row = Size
    /\ \E o \in Occurrences(search_state[1].word) : o[1] > cpos


\* C16: with a buffer that is not empty the screen row never exceeds the
\* content position, so the content index drawn on screen row 0 is never
\* negative and every filler row lies below the last line of the buffer.
NoFillerAbove ==
    Size > 0 =>
        /\ spos <= cpos
        /\ ContentIndexAt(0) >= 0
        /\ \A y \in FillerRows : ContentIndexAt(y) >= Size

\* a page up has just been cut at the first line: screen row 0 shows line 0
NoFillerAboveWitness ==
    /\ pc = "draw"
    /\ ch = "b"
    /\ Size > body_height
    /\ body_height >= 5
    /\ cpos = 0
    /\ spos = 0
    /\ cury >= 1

\* C17: while the terminal keeps its startup size and the buffer has at least
\* body_height >= 1 lines, the content index drawn on the last body row is at
\* most size - 1, so no filler row is drawn.
NoFillerBelow ==
    (Size >= body_height /\ body_height >= 1) =>
        /\ ContentIndexAt(body_height - 1) <= Size - 1
        /\ FillerRows = {}

\* a page down has just been cut at the last line: the last body row shows
\* the last line
NoFillerBelowWitness ==
    /\ pc = "draw"
    /\ ch = "f"
    /\ Size > body_height
    /\ body_height >= 5
    /\ cpos = Size - 1
    /\ ContentIndexAt(body_height - 1) = Size - 1
    /\ cury < body_height - 1


\* C18: when n or N moves the anchor from an occurrence A to an occurrence B,
\* the opposite key pressed next lands back on A, row and column, and puts
\* the content cursor on the row of A; for forward and for backward searches.
RepeatInverse ==
    [][(/\ ch' \in {"n", "N"}
        /\ search_state # <<>>
        /\ search_state[1].col >= 0
        /\ (KeyNext \/ KeyPrev)
        /\ search_state'[1].col >= 0) =>
         LET A == search_state[1]
             B == search_state'[1]
             opposite == IF ch' = "n" THEN "N" ELSE "n"
             back == ScanResult(B, opposite)
         IN /\ <<B.row, B.col>> # <<A.row, A.col>>
            /\ back.row = A.row
            /\ back.col = A.col
            /\ IndexSetPos(back.row, Size) = A.row]_vars

\* N of a forward search has just stepped back onto an occurrence that
\* overlaps the next one in the same row
RepeatInverseWitness ==
    /\ pc = "draw"
    /\ ch = "N"
    /\ search_state # <<>>
    /\ search_state[1].dir = 1
    /\ search_state[1].col >= 0
    /\ search_state[1].row = cpos
    /\ Len(search_state[1].word) = 2
    /\ MatchAt(content[cpos + 1], search_state[1].word,
               search_state[1].col + 1)


\* C19: a SearchState with anchor column >= 0 has its anchor row inside the
\* buffer and the pattern at that row and column, so the bytes the renderer
\* shows in reverse video are the pattern; while not found is pending (a
\* search has just failed) the anchor column is -1 and no row is highlighted.
HighlightIsPattern ==
    /\ (search_state # <<>> /\ search_state[1].col >= 0) =>
          LET ss == search_state[1]
          IN /\ 0 <= ss.row
             /\ ss.row < Size
             /\ MatchAt(content[ss.row + 1], ss.word, ss.col)
             /\ Highlighted(ss.row)
             /\ HighlightSpan(ss.row) = ss.word
    /\ message = "not found" =>
          /\ search_state # <<>>
          /\ search_state[1].col = -1
          /\ \A ci \in 0..(Size - 1) : ~Highlighted(ci)

\* a backward repeat has landed on a two-byte pattern away from column 0 in
\* the second line of the buffer
HighlightIsPatternWitness ==
    /\ pc = "draw"
    /\ ch = "N"
    /\ search_state # <<>>
    /\ search_state[1].col >= 1
    /\ search_state[1].row = 1
    /\ Len(search_state[1].word) = 2
    /\ HighlightSpan(1) = search_state[1].word


\* C20: with a buffer that is not empty and body_height >= 1 the scroll bar
\* starts inside the body, 0 <= y_begin < body_height for
\* y_begin = (content position - screen row) * body_height \div size, so
\* the row y_begin is painted as thumb and the thumb is never empty.
ThumbInside ==
    (Size > 0 /\ body_height >= 1) =>
        /\ 0 <= ScrollBegin
        /\ ScrollBegin < body_height
        /\ ScrollBegin \in ThumbRows
        /\ ThumbRows # {}

\* after G in a two-row body the thumb starts on the last body row
ThumbInsideWitness ==
    /\ pc = "draw"
    /\ ch = "G"
    /\ body_height = 2
    /\ Size >= 4
    /\ ScrollBegin = body_height - 1
    /\ ThumbRows = {1}

====
